---- MODULE Spec2Model ----
(***************************************************************************)
(* State machine of grasp/allegro_hand_client.py: one AllegroHand          *)
(* controller, the program that constructs and drives it, the child        *)
(* process it spawns, and the TCP stream to the server.                    *)
(*                                                                         *)
(* The program is single threaded.  pc is the position of the one thread;  *)
(* every blocking call (sleep, connect, send, recv, close, poll, killpg,   *)
(* wait) is one step whose outcome the operating system chooses.  The      *)
(* child process and the server are the environment and move on their own. *)
(***************************************************************************)
EXTENDS Integers, Sequences, FiniteSets, TLC

\* ------------------------------------------------------------------ bounds
\* Number of public operations the calling program performs on the controller.
MaxOps == 3

\* Time is counted in ticks, TicksPerUnit of them to one time unit, so that a
\* server may start accepting between two attempts.
TicksPerUnit == 2

\* The latest tick at which the server starts accepting connections.
MaxAccept == 12

\* ------------------------------------------------------- program constants
max_attempts == 5
RetryDelay == 1
GracePeriod == 2
JointCount == 16
RecvBuf == 1024
FatalStatus == 1

\* Lengths of the joint vectors the caller passes.
VecLens == {15, 16, 17}

\* The candidate locations probed for the executable: 1 is ./grasp, 2 is
\* ../build/grasp/grasp, 3 is grasp/grasp and 4 is grasp next to this file.
Candidates == 1..4

\* lines 29-34: the order in which they are probed.
possible_paths == <<1, 2, 3, 4>>

\* What the caller passes as grasp_path.
PathArgs == {"none", "relative", "absolute"}

\* line 139: the digits after the decimal point in "{p:.6f}".
FracDigits == 6

\* The joint angles the caller passes.  A finite angle is a sign and a
\* magnitude counted in tenths of the last printed digit, so that rounding has
\* something to do; magnitudes that end in 5 are left out, because which way
\* the binary value nearest to such a decimal rounds differs from value to
\* value.  Negative zero is a finite angle.  nan and the infinities are floats
\* too, and nothing in set_joint_positions keeps them out.
Magnitudes == {0, 4, 6, 12345678, 15707963, 99999996}
Floats ==
  [kind : {"finite"}, neg : BOOLEAN, units : Magnitudes]
    \cup [kind : {"inf"}, neg : BOOLEAN, units : {0}]
    \cup [kind : {"nan"}, neg : {FALSE}, units : {0}]
Zero == [kind |-> "finite", neg |-> FALSE, units |-> 0]

\* Lines the server answers a command line with.
OkLine == <<"O", "K", "\n">>
ErrorLine == <<"E", "R", "R", "O", "R", "\n">>
Replies == {OkLine, ErrorLine}

\* Characters str.strip() removes.
Whitespace == {" ", "\t", "\n", "\r"}

Min(a, b) == IF a < b THEN a ELSE b
Max(a, b) == IF a > b THEN a ELSE b

\* ---------------------------------------------------------- pure functions
\* lines 35-38: the loop over possible_paths from position i on; os.path.exists
\* is asked about one candidate after the other until one exists.
RECURSIVE ProbeFrom(_, _, _)
ProbeFrom(i, existing, asked) ==
  IF i > Len(possible_paths) THEN [path |-> -1, probed |-> asked]
  ELSE IF possible_paths[i] \in existing
       THEN [path |-> possible_paths[i],
             probed |-> Append(asked, possible_paths[i])]
       ELSE ProbeFrom(i + 1, existing, Append(asked, possible_paths[i]))

\* A resolution that takes the last candidate that exists.
ResolveExecutable_last(explicit, existing) ==
  IF explicit THEN 0
  ELSE IF existing = {} THEN -1
  ELSE CHOOSE c \in existing : \A d \in existing : c >= d

\* __init__, lines 27-40: the first candidate that exists; 0 stands for the
\* explicit path, -1 for FileNotFoundError.
ResolveExecutable(explicit, existing) ==
  IF explicit THEN 0 ELSE ProbeFrom(1, existing, <<>>).path

\* lines 27, 35-36: the candidates os.path.exists was asked about, in order.
Probed(explicit, existing) ==
  IF explicit THEN <<>> ELSE ProbeFrom(1, existing, <<>>).probed

\* Whether a path is absolute before line 42: the candidates are relative, an
\* explicit path is what the caller made it.
IsAbsolute(arg) == arg = "absolute"

\* line 42: os.path.abspath makes any path absolute.
abspath(isAbs) == TRUE

RECURSIVE Pow10(_)
Pow10(n) == IF n = 0 THEN 1 ELSE 10 * Pow10(n - 1)

DigitChar == <<"0", "1", "2", "3", "4", "5", "6", "7", "8", "9">>

\* The decimal digits of a natural number.
RECURSIVE Digits(_)
Digits(n) ==
  IF n < 10 THEN <<DigitChar[n + 1]>>
  ELSE Digits(n \div 10) \o <<DigitChar[(n % 10) + 1]>>

\* Zeros in front, up to width w.
RECURSIVE ZeroPad(_, _)
ZeroPad(s, w) == IF Len(s) >= w THEN s ELSE ZeroPad(<<"0">> \o s, w)

\* line 139: f"{p:.6f}".  A finite value is rounded to FracDigits digits and
\* printed as sign, integer part, point, fraction; the sign of a negative
\* value stays when it rounds to zero; nan and the infinities print as words.
Format6f(p) ==
  LET sign == IF p.neg THEN <<"-">> ELSE <<>>
      q == (p.units \div 10) + (IF p.units % 10 >= 5 THEN 1 ELSE 0)
  IN CASE p.kind = "nan" -> <<"n", "a", "n">>
       [] p.kind = "inf" -> sign \o <<"i", "n", "f">>
       [] OTHER -> sign \o Digits(q \div Pow10(FracDigits)) \o <<".">>
                     \o ZeroPad(Digits(q % Pow10(FracDigits)), FracDigits)

\* line 139: " ".join(...)
RECURSIVE Join(_)
Join(parts) ==
  IF parts = <<>> THEN <<>>
  ELSE IF Len(parts) = 1 THEN parts[1]
  ELSE parts[1] \o <<" ">> \o Join(Tail(parts))

SetJointsToken == <<"S", "E", "T", "_", "J", "O", "I", "N", "T", "S">>

\* line 139: "SET_JOINTS " + " ".join([f"{p:.6f}" for p in positions]) + "\n"
FormatCommand(positions_) ==
  SetJointsToken \o <<" ">>
    \o Join([i \in 1..Len(positions_) |-> Format6f(positions_[i])])
    \o <<"\n">>

RECURSIVE lstrip(_)
lstrip(s) == IF s # <<>> /\ Head(s) \in Whitespace THEN lstrip(Tail(s)) ELSE s

RECURSIVE rstrip(_)
rstrip(s) ==
  IF s # <<>> /\ s[Len(s)] \in Whitespace
  THEN rstrip(SubSeq(s, 1, Len(s) - 1))
  ELSE s

\* A strip that forgets the leading side.
strip_trailing_only(s) == rstrip(s)

\* str.strip() of line 143.
strip(s) == rstrip(lstrip(s))

\* line 144: response == "OK"
IsAck(response) == IF strip(response) = <<"O", "K">> THEN "true" ELSE "false"

\* A length check that lets shorter vectors through.
ValidLength_atmost(n) == n <= JointCount

\* line 130: len(positions) != 16 raises
ValidLength(n) == n = JointCount

\* A not-connected guard that raises instead of returning False.
NotConnectedOutcome_raises == [ret |-> "none", exc |-> "ConnectionError"]

\* lines 133-135: "Not connected to server", return False
NotConnectedOutcome == [ret |-> "false", exc |-> "none"]

\* line 108: while attempt < max_attempts
LoopCond(a) == a < max_attempts

\* A retry test that is off by one: it also sleeps after the last failure.
ShouldRetry_offbyone(a) == a <= max_attempts

\* A retry test that gives up one attempt early.
ShouldRetry_onefewer(a) == a < max_attempts - 1

\* line 116: if attempt < max_attempts (after attempt += 1)
ShouldRetry(a) == a < max_attempts

\* A liveness test with the sense inverted.
PollIsNone_inverted(c) == c # "running"

\* A liveness test that takes every child for a running one.
PollIsNone_always(c) == TRUE

\* lines 86 and 93: self.grasp_process.poll() is None
PollIsNone(c) == c = "running"

\* A wait that gives up one time unit early.
TimeoutExpired_early(w) == w >= GracePeriod - 1

\* line 90: wait(timeout=2) raises TimeoutExpired once 2 time units have passed
TimeoutExpired(w) == w >= GracePeriod

\* ------------------------------------------------------------------- state
VARIABLES
  pc,             \* position of the program
  socket,         \* self.socket: "none", or the state of the socket object
  grasp_process,  \* self.grasp_process: "none" or "handle"
  registered,     \* atexit.register(self.cleanup) has run
  child,          \* the child process: notspawned, running, zombie, reaped, gone
  live,           \* sockets created and not closed
  peakLive,       \* the largest number of sockets open at once so far
  attempt,        \* connect(): the local variable attempt
  connFrom,       \* who called connect(): "init" or "caller"
  tries,          \* connect(): socket.connect calls made by this invocation
  slept,          \* connect(): time units slept by this invocation
  connResult,     \* how the last connect() ended
  acceptAfter,    \* the tick, counted from the start of the constructor's
                  \* connect(), at which the server starts accepting; -1 when
                  \* the server's timing is left open
  cleanupFrom,    \* who called cleanup(): "caller", "connect" or "atexit"
  waited,         \* time units spent in wait(timeout=2)
  timedOut,       \* wait(timeout=2) raised TimeoutExpired
  clIO,           \* this cleanup() touched the socket or signalled the group
  secondInRow,    \* this cleanup() directly follows another cleanup()
  events,         \* what the cleanup() that is running has done so far
  afterCleanup,   \* the last operation that ended was a cleanup()
  cleanupRaised,  \* some cleanup() let an exception escape
  ops,            \* public operations the caller has started
  lastOp,         \* the last public operation started
  ret,            \* what the last set_joint_positions returned
  exc,            \* the last exception that left the controller
  io,             \* what the current set_joint_positions did on the socket
  exitStatus,     \* the program's exit status, -1 while it runs
  inbuf,          \* bytes the server has sent that the client has not read
  stale,          \* how many leading bytes of inbuf answer an earlier command
  peerOpen,       \* the server still holds its end of the connection
  linePart,       \* the server holds an incomplete command line
  quits,          \* QUIT lines delivered to the server
  terms,          \* os.killpg(..., SIGTERM) calls made
  kills,          \* os.killpg(..., SIGKILL) calls made
  everReady,      \* some connect() has succeeded
  exhausted,      \* whose connect() ran out of attempts: "none", "init", "caller"
  positions,      \* set_joint_positions: the vector being formatted
  cmd,            \* set_joint_positions: the local variable cmd
  resolution      \* lines 26-42: the grasp_path argument, the files that
                  \* exist, the probes made and self.grasp_path, kept until
                  \* start_grasp has read self.grasp_path

obj == <<socket, grasp_process, registered>>
osv == <<child, live, peakLive>>
conn == <<attempt, connFrom, tries, slept, connResult, acceptAfter>>
clv == <<cleanupFrom, waited, timedOut, clIO, secondInRow, events>>
callv == <<ops, lastOp, ret, io>>
net == <<inbuf, stale, peerOpen, linePart>>
sig == <<quits, terms, kills>>
hist == <<everReady, exhausted, resolution>>
fmt == <<positions, cmd>>

vars == <<pc, obj, osv, conn, clv, afterCleanup, cleanupRaised, callv, exc,
          exitStatus, net, sig, hist, fmt>>

\* Before lines 26-42 have run.
Unresolved == [arg |-> "none", existing |-> {}, probed |-> <<>>, path |-> -1,
               absolute |-> FALSE, outcome |-> "pending"]

\* After start_grasp has read self.grasp_path; nothing reads it again.
Consumed == [Unresolved EXCEPT !.outcome = "used"]

NoIO == [len |-> 0, sock |-> "none", sent |-> "none", recv |-> "none",
         data |-> <<>>, staleRead |-> 0]

\* The state before AllegroHand(...) is evaluated.
Fresh ==
  /\ pc = "new"
  /\ socket = "none" /\ grasp_process = "none" /\ registered = FALSE
  /\ child = "notspawned" /\ live = 0 /\ peakLive = 0
  /\ attempt = 0 /\ connFrom = "none" /\ tries = 0 /\ slept = 0
  /\ connResult = "none"
  /\ cleanupFrom = "none" /\ waited = 0 /\ timedOut = FALSE
  /\ clIO = FALSE /\ secondInRow = FALSE /\ events = <<>>
  /\ afterCleanup = FALSE /\ cleanupRaised = FALSE
  /\ ops = 0 /\ lastOp = "none" /\ ret = "none" /\ io = NoIO
  /\ exc = "none" /\ exitStatus = -1
  /\ inbuf = <<>> /\ stale = 0 /\ peerOpen = FALSE /\ linePart = FALSE
  /\ quits = 0 /\ terms = 0 /\ kills = 0
  /\ everReady = FALSE /\ exhausted = "none"
  /\ resolution = Unresolved
  /\ positions = <<>> /\ cmd = <<>>

\* The server accepts or refuses each attempt as it pleases.
Init == Fresh /\ acceptAfter = -1

\* The server refuses every attempt made before some tick and accepts every
\* attempt made from that tick on.
InitTimed == Fresh /\ acceptAfter \in 0..MaxAccept

\* A connected controller inside set_joint_positions, at line 139, with a
\* vector of 16 floats: all elements alike but one.
Vectors ==
  {[i \in 1..JointCount |-> IF i = k THEN odd ELSE base] :
     k \in 1..JointCount, base \in Floats, odd \in Floats}

InitFormat ==
  /\ pc = "sj_format"
  /\ socket = "connected" /\ grasp_process = "handle" /\ registered = TRUE
  /\ child = "running" /\ live = 1 /\ peakLive = 1
  /\ attempt = 0 /\ connFrom = "none" /\ tries = 0 /\ slept = 0
  /\ connResult = "none" /\ acceptAfter = -1
  /\ cleanupFrom = "none" /\ waited = 0 /\ timedOut = FALSE
  /\ clIO = FALSE /\ secondInRow = FALSE /\ events = <<>>
  /\ afterCleanup = FALSE /\ cleanupRaised = FALSE
  /\ ops = 1 /\ lastOp = "set" /\ ret = "none"
  /\ io = [NoIO EXCEPT !.len = JointCount, !.sock = "connected"]
  /\ exc = "none" /\ exitStatus = -1
  /\ inbuf = <<>> /\ stale = 0 /\ peerOpen = TRUE /\ linePart = FALSE
  /\ quits = 0 /\ terms = 0 /\ kills = 0
  /\ everReady = TRUE /\ exhausted = "none"
  /\ resolution = Consumed
  /\ positions \in Vectors /\ cmd = <<>>

\* ------------------------------------------------------ shared control flow
\* An exception leaves the controller.  Inside the constructor nobody holds
\* the object yet: the exception ends the program (status 1, 130 for an
\* interrupt) and the exit handlers run.  In an operation the caller started,
\* the caller sees it.
Raise(e, inInit) ==
  /\ exc' = e
  /\ IF inInit
     THEN /\ pc' = "atexit"
          /\ exitStatus' = IF e = "KeyboardInterrupt" THEN 130 ELSE 1
     ELSE /\ pc' = "raised"
          /\ UNCHANGED exitStatus

\* A cleanup() that stops the process before it deals with the socket.
EnterCleanup_processfirst(from) ==
  /\ cleanupFrom' = from
  /\ clIO' = FALSE
  /\ secondInRow' = afterCleanup
  /\ events' = <<>>
  /\ pc' = IF grasp_process # "none" THEN "cl_poll"
           ELSE IF socket # "none" THEN "cl_quit"
           ELSE "cl_return"

\* cleanup() is entered: lines 72-74 and 83.
EnterCleanup(from) ==
  /\ cleanupFrom' = from
  /\ clIO' = FALSE
  /\ secondInRow' = afterCleanup
  /\ events' = <<>>
  /\ pc' = IF socket # "none" THEN "cl_quit"
           ELSE IF grasp_process # "none" THEN "cl_poll"
           ELSE "cl_return"

\* connect() is entered: lines 106-107.
EnterConnect(from) ==
  /\ connFrom' = from
  /\ attempt' = 0 /\ tries' = 0 /\ slept' = 0
  /\ connResult' = "none"
  /\ acceptAfter' = IF from = "init" THEN acceptAfter ELSE -1
  /\ pc' = "conn_loop"

\* line 111: what the server does with an attempt made after t time units of
\* retry delay.  Refused attempts fail at once, so the delays of line 118 are
\* all the time that passes inside connect().
Accepts(t) == acceptAfter < 0 \/ t * TicksPerUnit >= acceptAfter
Refuses(t) == acceptAfter < 0 \/ t * TicksPerUnit < acceptAfter

\* Control is back in the calling program: the locals of the method that
\* ran are gone and its result has been looked at.
ForgetCall ==
  /\ ret' = "none" /\ io' = NoIO /\ lastOp' = "none"
  /\ attempt' = 0 /\ connFrom' = "none" /\ tries' = 0 /\ slept' = 0
  /\ connResult' = "none" /\ acceptAfter' = -1
  /\ waited' = 0 /\ timedOut' = FALSE

\* -------------------------------------------------------------- construction
\* __init__, lines 21-45: the fields, the executable, the exit handler.
init_resolve ==
  /\ pc = "new"
  /\ \E arg \in PathArgs, existing \in SUBSET Candidates :
       LET path == ResolveExecutable(arg # "none", existing)
           seen == [Unresolved EXCEPT !.arg = arg, !.existing = existing,
                                      !.probed = Probed(arg # "none", existing),
                                      !.path = path]
       IN IF path = -1
          THEN /\ resolution' = [seen EXCEPT !.outcome = "notfound"]
               /\ exc' = "FileNotFoundError"
               /\ exitStatus' = 1
               /\ pc' = "atexit"
               /\ UNCHANGED registered
          ELSE /\ resolution' =
                    [seen EXCEPT !.absolute = abspath(IsAbsolute(arg)),
                                 !.outcome = "found"]
               /\ registered' = TRUE
               /\ pc' = "start"
               /\ UNCHANGED <<exc, exitStatus>>
  /\ lastOp' = "construct"
  /\ UNCHANGED <<socket, grasp_process, osv, conn, clv, afterCleanup,
                 cleanupRaised, ops, ret, io, net, sig, everReady, exhausted,
                 fmt>>

\* start_grasp, lines 56-67: Popen gives the child its own process group.
start_grasp_ok ==
  /\ pc = "start"
  /\ grasp_process' = "handle"
  /\ child' = "running"
  /\ resolution' = Consumed
  /\ pc' = "settle"
  /\ UNCHANGED <<socket, registered, live, peakLive, conn, clv, afterCleanup,
                 cleanupRaised, callv, exc, exitStatus, net, sig, everReady,
                 exhausted, fmt>>

\* start_grasp, lines 68-70: Popen raised, sys.exit(1).
start_grasp_failed ==
  /\ pc = "start"
  /\ resolution' = Consumed
  /\ exitStatus' = FatalStatus
  /\ pc' = "atexit"
  /\ UNCHANGED <<obj, osv, conn, clv, afterCleanup, cleanupRaised, callv, exc,
                 net, sig, everReady, exhausted, fmt>>

\* __init__, lines 51-54: the settle delay is over, connect() is called.
settle_done ==
  /\ pc = "settle"
  /\ EnterConnect("init")
  /\ UNCHANGED <<obj, osv, clv, afterCleanup, cleanupRaised, callv, exc,
                 exitStatus, net, sig, hist, fmt>>

\* __init__, line 51: an interrupt arrives during time.sleep(2).
settle_interrupted ==
  /\ pc = "settle"
  /\ Raise("KeyboardInterrupt", TRUE)
  /\ UNCHANGED <<obj, osv, conn, clv, afterCleanup, cleanupRaised, callv,
                 net, sig, hist, fmt>>

\* ------------------------------------------------------------------ connect
\* connect, lines 108-110: the loop test and a new socket bound to
\* self.socket.  The socket bound before loses its last reference and the
\* runtime closes it; for a moment both exist.
connect_socket ==
  /\ pc = "conn_loop"
  /\ IF LoopCond(attempt)
     THEN /\ socket' = "unconnected"
          /\ live' = live + 1 - (IF socket \in {"unconnected", "connected"}
                                 THEN 1 ELSE 0)
          /\ peakLive' = Max(peakLive, live + 1)
          /\ pc' = "conn_try"
          /\ UNCHANGED connResult
     ELSE /\ connResult' = "returned"
          /\ pc' = "returned"
          /\ UNCHANGED <<socket, live, peakLive>>
  /\ UNCHANGED <<grasp_process, registered, child, attempt, connFrom, tries,
                 slept, acceptAfter, clv, afterCleanup, cleanupRaised, callv, exc,
                 exitStatus, net, sig, hist, fmt>>

\* connect, lines 111-113: the server accepts, connect() returns.
connect_ok ==
  /\ pc = "conn_try"
  /\ Accepts(slept)
  /\ socket' = "connected"
  /\ tries' = tries + 1
  /\ connResult' = "connected"
  /\ everReady' = TRUE
  /\ inbuf' = <<>> /\ stale' = 0 /\ peerOpen' = TRUE /\ linePart' = FALSE
  /\ pc' = "returned"
  /\ UNCHANGED <<grasp_process, registered, osv, attempt, connFrom, slept,
                 acceptAfter, clv, afterCleanup, cleanupRaised, callv, exc,
                 exitStatus, sig, exhausted, resolution, fmt>>

\* connect, lines 114-122: the attempt failed; retry, or clean up and exit.
connect_failed ==
  /\ pc = "conn_try"
  /\ Refuses(slept)
  /\ tries' = tries + 1
  /\ attempt' = attempt + 1
  /\ IF ShouldRetry(attempt + 1)
     THEN /\ pc' = "conn_sleep"
          /\ UNCHANGED <<cleanupFrom, clIO, secondInRow, events, connResult,
                         exhausted>>
     ELSE /\ connResult' = "fatal"
          /\ exhausted' = connFrom
          /\ EnterCleanup("connect")
  /\ UNCHANGED <<obj, osv, connFrom, slept, acceptAfter, waited, timedOut,
                 afterCleanup, cleanupRaised, callv, exc, exitStatus, net,
                 sig, everReady, resolution, fmt>>

\* connect, line 118: time.sleep(1) between two attempts.
retry_delay ==
  /\ pc = "conn_sleep"
  /\ slept' = slept + RetryDelay
  /\ pc' = "conn_loop"
  /\ UNCHANGED <<obj, osv, attempt, connFrom, tries, connResult, acceptAfter,
                 clv,
                 afterCleanup, cleanupRaised, callv, exc, exitStatus, net,
                 sig, hist, fmt>>

\* connect, line 118: an interrupt arrives during time.sleep(1).
retry_interrupted ==
  /\ pc = "conn_sleep"
  /\ connResult' = "interrupted"
  /\ Raise("KeyboardInterrupt", connFrom = "init")
  /\ UNCHANGED <<obj, osv, attempt, connFrom, tries, slept, acceptAfter, clv,
                 afterCleanup,
                 cleanupRaised, callv, net, sig, hist, fmt>>

\* ------------------------------------------------------------------ cleanup
\* The try/finally of lines 84-102 is left: the handle is dropped.
ProcessPartEnds ==
  /\ grasp_process' = "none"
  /\ pc' = "cl_return"

\* cleanup, line 77: the QUIT line goes out on a connected socket.
cleanup_quit_sent ==
  /\ pc = "cl_quit"
  /\ events' = Append(events, "quit")
  /\ socket = "connected"
  /\ quits' = quits + 1
  /\ clIO' = TRUE
  /\ pc' = "cl_pause"
  /\ UNCHANGED <<obj, osv, conn, cleanupFrom, waited, timedOut, secondInRow,
                 afterCleanup, cleanupRaised, callv, exc, exitStatus, net,
                 terms, kills, hist, fmt>>

\* cleanup, lines 77-80: send raises (always on a socket that is not
\* connected) or is interrupted; the bare except swallows either.
cleanup_quit_failed ==
  /\ pc = "cl_quit"
  /\ events' = Append(events, "quitfail")
  /\ clIO' = TRUE
  /\ pc' = "cl_close"
  /\ UNCHANGED <<obj, osv, conn, cleanupFrom, waited, timedOut, secondInRow,
                 afterCleanup, cleanupRaised, callv, exc, exitStatus, net,
                 sig, hist, fmt>>

\* cleanup, line 78: time.sleep(0.1); an interrupt here is swallowed too.
cleanup_pause ==
  /\ pc = "cl_pause"
  /\ events' = Append(events, "pause")
  /\ pc' = "cl_close"
  /\ UNCHANGED <<obj, osv, conn, cleanupFrom, waited, timedOut, clIO,
                 secondInRow, afterCleanup, cleanupRaised, callv, exc,
                 exitStatus, net, sig, hist, fmt>>

\* cleanup, line 81 and close, lines 151-153: the socket is closed and
\* self.socket cleared.
cleanup_close_ok ==
  /\ pc = "cl_close"
  /\ events' = Append(events, "close")
  /\ socket' = "none"
  /\ live' = live - (IF socket \in {"unconnected", "connected"} THEN 1 ELSE 0)
  /\ clIO' = TRUE
  /\ pc' = IF grasp_process # "none" THEN "cl_poll" ELSE "cl_return"
  /\ UNCHANGED <<grasp_process, registered, child, peakLive, conn, cleanupFrom,
                 waited, timedOut, secondInRow, afterCleanup, cleanupRaised,
                 callv, exc, exitStatus, net, sig, hist, fmt>>

\* cleanup, line 81 and close, line 152: socket.close() raises OSError.  The
\* descriptor is gone, self.socket is not cleared, and nothing in cleanup()
\* catches the error: it leaves cleanup() before line 83.
cleanup_close_raises ==
  /\ pc = "cl_close"
  /\ events' = <<>>
  /\ socket \in {"unconnected", "connected"}
  /\ socket' = "closed"
  /\ live' = live - 1
  /\ clIO' = TRUE
  /\ afterCleanup' = TRUE
  /\ cleanupRaised' = TRUE
  /\ CASE cleanupFrom = "atexit" ->
            \* the interpreter prints the error of an exit handler and goes on
            pc' = "terminated" /\ UNCHANGED <<exc, exitStatus>>
       [] cleanupFrom = "connect" -> Raise("OSError", connFrom = "init")
       [] OTHER -> Raise("OSError", FALSE)
  /\ UNCHANGED <<grasp_process, registered, child, peakLive, conn, cleanupFrom,
                 waited, timedOut, secondInRow, callv, net, sig, hist, fmt>>

\* cleanup, line 86: poll(); a child that has exited is reaped by it.
cleanup_poll ==
  /\ pc = "cl_poll"
  /\ IF PollIsNone(child)
     THEN /\ pc' = "cl_term"
          /\ UNCHANGED <<grasp_process, child>>
     ELSE /\ child' = IF child = "zombie" THEN "reaped" ELSE child
          /\ ProcessPartEnds
  /\ UNCHANGED <<socket, registered, live, peakLive, conn, clv, afterCleanup,
                 cleanupRaised, callv, exc, exitStatus, net, sig, hist, fmt>>

\* cleanup, lines 88-90: SIGTERM goes to the process group, wait() begins.
cleanup_term_sent ==
  /\ pc = "cl_term"
  /\ events' = Append(events, "term")
  /\ terms' = terms + 1
  /\ clIO' = TRUE
  /\ waited' = 0
  /\ pc' = "cl_wait"
  /\ UNCHANGED <<obj, osv, conn, cleanupFrom, timedOut, secondInRow,
                 afterCleanup, cleanupRaised, callv, exc, exitStatus, net,
                 quits, kills, hist, fmt>>

\* cleanup, lines 88, 95-97: os.getpgid finds no such process.
cleanup_term_lookup_error ==
  /\ pc = "cl_term"
  /\ child' = "gone"
  /\ ProcessPartEnds
  /\ UNCHANGED <<socket, registered, live, peakLive, conn, clv, afterCleanup,
                 cleanupRaised, callv, exc, exitStatus, net, sig, hist, fmt>>

\* cleanup, lines 88, 98-100: os.killpg is refused; a warning is printed.
cleanup_term_refused ==
  /\ pc = "cl_term"
  /\ events' = Append(events, "term")
  /\ terms' = terms + 1
  /\ clIO' = TRUE
  /\ ProcessPartEnds
  /\ UNCHANGED <<socket, registered, osv, conn, cleanupFrom, waited, timedOut,
                 secondInRow, afterCleanup, cleanupRaised, callv, exc,
                 exitStatus, net, quits, kills, hist, fmt>>

\* cleanup, line 90: one time unit of wait(timeout=2) passes.
cleanup_wait_tick ==
  /\ pc = "cl_wait"
  /\ child = "running"
  /\ ~TimeoutExpired(waited)
  /\ waited' = waited + 1
  /\ UNCHANGED <<pc, obj, osv, conn, cleanupFrom, timedOut, clIO, secondInRow,
                 events,
                 afterCleanup, cleanupRaised, callv, exc, exitStatus, net,
                 sig, hist, fmt>>

\* cleanup, line 90: the child has exited, wait() reaps it and returns.
cleanup_wait_returns ==
  /\ pc = "cl_wait"
  /\ child # "running"
  /\ child' = IF child = "zombie" THEN "reaped" ELSE child
  /\ ProcessPartEnds
  /\ UNCHANGED <<socket, registered, live, peakLive, conn, clv, afterCleanup,
                 cleanupRaised, callv, exc, exitStatus, net, sig, hist, fmt>>

\* cleanup, lines 90-91: the grace period is over, TimeoutExpired is raised.
cleanup_wait_timeout ==
  /\ pc = "cl_wait"
  /\ child = "running"
  /\ TimeoutExpired(waited)
  /\ timedOut' = TRUE
  /\ pc' = "cl_poll2"
  /\ UNCHANGED <<obj, osv, conn, cleanupFrom, waited, clIO, secondInRow,
                 events,
                 afterCleanup, cleanupRaised, callv, exc, exitStatus, net,
                 sig, hist, fmt>>

\* cleanup, line 93: the child exited just after the timeout; no SIGKILL.
cleanup_kill_skipped ==
  /\ pc = "cl_poll2"
  /\ ~PollIsNone(child)
  /\ child' = IF child = "zombie" THEN "reaped" ELSE child
  /\ ProcessPartEnds
  /\ UNCHANGED <<socket, registered, live, peakLive, conn, clv, afterCleanup,
                 cleanupRaised, callv, exc, exitStatus, net, sig, hist, fmt>>

\* cleanup, lines 93-94: SIGKILL goes to the process group (or is refused,
\* which lines 98-100 report).  Nothing waits for the child afterwards.
cleanup_kill_sent ==
  /\ pc = "cl_poll2"
  /\ events' = Append(events, "kill")
  /\ PollIsNone(child)
  /\ kills' = kills + 1
  /\ clIO' = TRUE
  /\ ProcessPartEnds
  /\ UNCHANGED <<socket, registered, osv, conn, cleanupFrom, waited, timedOut,
                 secondInRow, afterCleanup, cleanupRaised, callv, exc,
                 exitStatus, net, quits, terms, hist, fmt>>

\* cleanup, lines 94-97: os.getpgid finds no such process.
cleanup_kill_lookup_error ==
  /\ pc = "cl_poll2"
  /\ PollIsNone(child)
  /\ child' = "gone"
  /\ ProcessPartEnds
  /\ UNCHANGED <<socket, registered, live, peakLive, conn, clv, afterCleanup,
                 cleanupRaised, callv, exc, exitStatus, net, sig, hist, fmt>>

\* cleanup() returns to whoever called it: the caller, connect() (which goes
\* on to sys.exit(1), line 122) or the interpreter's exit.
cleanup_return ==
  /\ pc = "cl_return"
  /\ events' = <<>>
  /\ afterCleanup' = TRUE
  /\ CASE cleanupFrom = "atexit" -> pc' = "terminated" /\ UNCHANGED exitStatus
       [] cleanupFrom = "connect" -> pc' = "atexit" /\ exitStatus' = FatalStatus
       [] OTHER -> pc' = "returned" /\ UNCHANGED exitStatus
  /\ UNCHANGED <<obj, osv, conn, cleanupFrom, waited, timedOut, clIO,
                 secondInRow, cleanupRaised, callv, exc, net, sig,
                 hist, fmt>>

\* ----------------------------------------------------------------- the exit
\* The interpreter exits: the handler registered at line 45 runs.
run_exit_handlers ==
  /\ pc = "atexit"
  /\ IF registered
     THEN EnterCleanup("atexit")
     ELSE /\ pc' = "terminated"
          /\ UNCHANGED <<cleanupFrom, clIO, secondInRow, events>>
  /\ ForgetCall
  /\ exc' = "none"
  /\ UNCHANGED <<obj, osv, afterCleanup, cleanupRaised, ops, exitStatus, net,
                 sig, hist, fmt>>

\* -------------------------------------------------------------- environment
\* The child process exits on its own or because of a signal.
child_exits ==
  /\ child = "running"
  /\ pc # "terminated"
  /\ child' = "zombie"
  /\ UNCHANGED <<pc, obj, live, peakLive, conn, clv, afterCleanup,
                 cleanupRaised, callv, exc, exitStatus, net, sig, hist, fmt>>

\* The server closes its end of the connection.
server_closes ==
  /\ pc \in {"idle", "sj_recv"}
  /\ socket = "connected"
  /\ peerOpen
  /\ peerOpen' = FALSE
  /\ UNCHANGED <<pc, obj, osv, conn, clv, afterCleanup, cleanupRaised, callv,
                 exc, exitStatus, inbuf, stale, linePart, sig, hist, fmt>>

\* ------------------------------------------------------ set_joint_positions
\* set_joint_positions, lines 130-135: the length check, then the
\* not-connected check; otherwise the call goes on to send.  Bytes still
\* unread at this point answer earlier commands.
call_set_joint_positions ==
  /\ pc = "idle"
  /\ ops < MaxOps
  /\ ops' = ops + 1
  /\ lastOp' = "set"
  /\ afterCleanup' = FALSE
  /\ \E n \in VecLens :
       /\ io' = [NoIO EXCEPT !.len = n, !.sock = socket]
       /\ IF ~ValidLength(n)
          THEN /\ ret' = "none"
               /\ Raise("ValueError", FALSE)
               /\ UNCHANGED stale
          ELSE IF socket = "none"
          THEN /\ ret' = NotConnectedOutcome.ret
               /\ IF NotConnectedOutcome.exc = "none"
                  THEN pc' = "returned" /\ exc' = "none" /\ UNCHANGED exitStatus
                  ELSE Raise(NotConnectedOutcome.exc, FALSE)
               /\ UNCHANGED stale
          ELSE /\ ret' = "none"
               /\ exc' = "none"
               /\ pc' = "sj_send"
               /\ stale' = Len(inbuf)
               /\ UNCHANGED exitStatus
  /\ UNCHANGED <<obj, osv, conn, clv, cleanupRaised, inbuf, peerOpen, linePart,
                 sig, hist, fmt>>

\* line 140: send() takes the whole command line; the server answers a
\* complete line with one line of its own.
sj_send_full ==
  /\ pc = "sj_send"
  /\ socket = "connected"
  /\ io' = [io EXCEPT !.sent = "full"]
  /\ linePart' = FALSE
  /\ IF peerOpen
     THEN \E r \in Replies : inbuf' = inbuf \o r
     ELSE UNCHANGED inbuf
  /\ pc' = "sj_recv"
  /\ UNCHANGED <<obj, osv, conn, clv, afterCleanup, cleanupRaised, ops, lastOp,
                 ret, exc, exitStatus, stale, peerOpen, sig, hist, fmt>>

\* line 140: send() takes only part of the line; its return value is not
\* looked at, so the call goes on to recv.
sj_send_partial ==
  /\ pc = "sj_send"
  /\ socket = "connected"
  /\ io' = [io EXCEPT !.sent = "partial"]
  /\ linePart' = TRUE
  /\ pc' = "sj_recv"
  /\ UNCHANGED <<obj, osv, conn, clv, afterCleanup, cleanupRaised, ops, lastOp,
                 ret, exc, exitStatus, inbuf, stale, peerOpen, sig, hist, fmt>>

\* lines 140, 145-147: send() raises (always on a socket that is not
\* connected); the error is printed and False returned.
sj_send_error ==
  /\ pc = "sj_send"
  /\ io' = [io EXCEPT !.sent = "error"]
  /\ ret' = "false"
  /\ pc' = "returned"
  /\ UNCHANGED <<obj, osv, conn, clv, afterCleanup, cleanupRaised, ops, lastOp,
                 exc, exitStatus, net, sig, hist, fmt>>

\* line 140: an interrupt arrives in send(); "except Exception" lets it pass.
sj_send_interrupted ==
  /\ pc = "sj_send"
  /\ socket = "connected"
  /\ io' = [io EXCEPT !.sent = "interrupted"]
  /\ Raise("KeyboardInterrupt", FALSE)
  /\ UNCHANGED <<obj, osv, conn, clv, afterCleanup, cleanupRaised, ops, lastOp,
                 ret, net, sig, hist, fmt>>

\* lines 143-144: recv(1024) returns the bytes that have arrived so far, at
\* least one; the result is whether they strip to OK.
sj_recv_data ==
  /\ pc = "sj_recv"
  /\ inbuf # <<>>
  /\ \E n \in 1..Min(Len(inbuf), RecvBuf) :
       /\ io' = [io EXCEPT !.recv = "data", !.data = SubSeq(inbuf, 1, n),
                           !.staleRead = Min(n, stale)]
       /\ inbuf' = SubSeq(inbuf, n + 1, Len(inbuf))
       /\ stale' = Max(stale - n, 0)
       /\ ret' = IsAck(SubSeq(inbuf, 1, n))
  /\ pc' = "returned"
  /\ UNCHANGED <<obj, osv, conn, clv, afterCleanup, cleanupRaised, ops, lastOp,
                 exc, exitStatus, peerOpen, linePart, sig, hist, fmt>>

\* lines 143-144: the server has closed; recv returns no bytes.
sj_recv_eof ==
  /\ pc = "sj_recv"
  /\ inbuf = <<>>
  /\ ~peerOpen
  /\ io' = [io EXCEPT !.recv = "eof"]
  /\ ret' = IsAck(<<>>)
  /\ pc' = "returned"
  /\ UNCHANGED <<obj, osv, conn, clv, afterCleanup, cleanupRaised, ops, lastOp,
                 exc, exitStatus, net, sig, hist, fmt>>

\* lines 143, 145-147: recv raises; the error is printed and False returned.
sj_recv_error ==
  /\ pc = "sj_recv"
  /\ io' = [io EXCEPT !.recv = "error"]
  /\ ret' = "false"
  /\ pc' = "returned"
  /\ UNCHANGED <<obj, osv, conn, clv, afterCleanup, cleanupRaised, ops, lastOp,
                 exc, exitStatus, net, sig, hist, fmt>>

\* line 143: an interrupt arrives in recv(); "except Exception" lets it pass.
sj_recv_interrupted ==
  /\ pc = "sj_recv"
  /\ io' = [io EXCEPT !.recv = "interrupted"]
  /\ Raise("KeyboardInterrupt", FALSE)
  /\ UNCHANGED <<obj, osv, conn, clv, afterCleanup, cleanupRaised, ops, lastOp,
                 ret, net, sig, hist, fmt>>

\* line 139: the command line is put together; line 140 is next.
format_command ==
  /\ pc = "sj_format"
  /\ cmd' = FormatCommand(positions)
  /\ pc' = "sj_send"
  /\ UNCHANGED <<obj, osv, conn, clv, afterCleanup, cleanupRaised, callv, exc,
                 exitStatus, net, sig, hist, positions>>

\* ------------------------------------------------- the other public methods
\* close, lines 149-153, called by the program.
call_close_ok ==
  /\ pc = "idle"
  /\ ops < MaxOps
  /\ ops' = ops + 1
  /\ lastOp' = "close"
  /\ afterCleanup' = FALSE
  /\ exc' = "none"
  /\ socket' = "none"
  /\ live' = live - (IF socket \in {"unconnected", "connected"} THEN 1 ELSE 0)
  /\ pc' = "returned"
  /\ UNCHANGED <<grasp_process, registered, child, peakLive, conn, clv,
                 cleanupRaised, ret, io, exitStatus, net, sig, hist, fmt>>

\* close, line 152: socket.close() raises OSError; line 153 is not reached.
call_close_raises ==
  /\ pc = "idle"
  /\ ops < MaxOps
  /\ socket \in {"unconnected", "connected"}
  /\ ops' = ops + 1
  /\ lastOp' = "close"
  /\ afterCleanup' = FALSE
  /\ socket' = "closed"
  /\ live' = live - 1
  /\ Raise("OSError", FALSE)
  /\ UNCHANGED <<grasp_process, registered, child, peakLive, conn, clv,
                 cleanupRaised, ret, io, net, sig, hist, fmt>>

\* cleanup, called by the program.
call_cleanup ==
  /\ pc = "idle"
  /\ ops < MaxOps
  /\ ops' = ops + 1
  /\ lastOp' = "cleanup"
  /\ exc' = "none"
  /\ EnterCleanup("caller")
  /\ UNCHANGED <<obj, osv, conn, waited, timedOut, afterCleanup, cleanupRaised,
                 ret, io, exitStatus, net, sig, hist, fmt>>

\* connect, called by the program on the constructed controller.
call_connect ==
  /\ pc = "idle"
  /\ ops < MaxOps
  /\ ops' = ops + 1
  /\ lastOp' = "connect"
  /\ afterCleanup' = FALSE
  /\ exc' = "none"
  /\ EnterConnect("caller")
  /\ UNCHANGED <<obj, osv, clv, cleanupRaised, ret, io, exitStatus, net, sig,
                 hist, fmt>>

\* ---------------------------------------------------------------- the caller
\* The program returns from its main function: a normal exit, status 0.
caller_returns ==
  /\ pc = "idle"
  /\ exitStatus' = 0
  /\ pc' = "atexit"
  /\ UNCHANGED <<obj, osv, conn, clv, afterCleanup, cleanupRaised, callv, exc,
                 net, sig, hist, fmt>>

\* The program has the result of the call and carries on.
caller_continues ==
  /\ pc = "returned"
  /\ pc' = "idle"
  /\ ForgetCall
  /\ cleanupFrom' = "none" /\ clIO' = FALSE /\ secondInRow' = FALSE
  /\ UNCHANGED events
  /\ UNCHANGED <<obj, osv, afterCleanup, cleanupRaised, ops, exc, exitStatus,
                 net, sig, hist, fmt>>

\* The program catches the exception and carries on.
caller_catches ==
  /\ pc = "raised"
  /\ pc' = "idle"
  /\ ForgetCall
  /\ exc' = "none"
  /\ cleanupFrom' = "none" /\ clIO' = FALSE /\ secondInRow' = FALSE
  /\ UNCHANGED events
  /\ UNCHANGED <<obj, osv, afterCleanup, cleanupRaised, ops, exitStatus, net,
                 sig, hist, fmt>>

\* Nothing catches the exception: the interpreter exits with an error status.
caller_propagates ==
  /\ pc = "raised"
  /\ exitStatus' = IF exc = "KeyboardInterrupt" THEN 130 ELSE 1
  /\ pc' = "atexit"
  /\ UNCHANGED <<obj, osv, conn, clv, afterCleanup, cleanupRaised, callv, exc,
                 net, sig, hist, fmt>>

\* ------------------------------------------------------------ specification
Next ==
  \/ init_resolve \/ start_grasp_ok \/ start_grasp_failed
  \/ settle_done \/ settle_interrupted
  \/ connect_socket \/ connect_ok \/ connect_failed
  \/ retry_delay \/ retry_interrupted
  \/ cleanup_quit_sent \/ cleanup_quit_failed \/ cleanup_pause
  \/ cleanup_close_ok \/ cleanup_close_raises
  \/ cleanup_poll
  \/ cleanup_term_sent \/ cleanup_term_lookup_error \/ cleanup_term_refused
  \/ cleanup_wait_tick \/ cleanup_wait_returns \/ cleanup_wait_timeout
  \/ cleanup_kill_skipped \/ cleanup_kill_sent \/ cleanup_kill_lookup_error
  \/ cleanup_return \/ run_exit_handlers
  \/ child_exits \/ server_closes
  \/ call_set_joint_positions
  \/ sj_send_full \/ sj_send_partial \/ sj_send_error \/ sj_send_interrupted
  \/ sj_recv_data \/ sj_recv_eof \/ sj_recv_error \/ sj_recv_interrupted
  \/ call_close_ok \/ call_close_raises \/ call_cleanup \/ call_connect
  \/ caller_returns \/ caller_continues \/ caller_catches \/ caller_propagates

Spec == Init /\ [][Next]_vars

\* The same program against a server whose start-up time is fixed in advance.
SpecTimed == InitTimed /\ [][Next]_vars

\* The formatting of one command line, for every vector in Vectors.
NextFormat == format_command

SpecFormat == InitFormat /\ [][NextFormat]_vars

\* ------------------------------------------------------------------ claims
CleanupPcs == {"cl_quit", "cl_pause", "cl_close", "cl_poll", "cl_term",
               "cl_wait", "cl_poll2", "cl_return"}

\* C1: cleanup() is idempotent: no invocation raises; over the lifetime of the
\* controller QUIT is sent at most once and the process group gets at most one
\* SIGTERM and at most one SIGKILL; a cleanup() that directly follows another
\* sends no signal and does no socket I/O.
C1_CleanupIdempotent ==
  /\ ~cleanupRaised
  /\ quits <= 1 /\ terms <= 1 /\ kills <= 1
  /\ secondInRow => ~clIO

C3_BoundedRetry ==
  /\ tries <= max_attempts
  /\ pc = "conn_try" => tries = attempt /\ slept = attempt * RetryDelay
  /\ pc = "conn_sleep" => tries = attempt /\ slept = (attempt - 1) * RetryDelay
  /\ connResult = "connected" =>
       /\ socket = "connected" /\ pc = "returned"
       /\ tries = attempt + 1 /\ slept = attempt * RetryDelay
  /\ connResult = "fatal" <=> attempt = max_attempts
  /\ connResult = "fatal" =>
       /\ tries = max_attempts
       /\ slept = (max_attempts - 1) * RetryDelay
       /\ pc \in CleanupPcs \cup {"atexit", "raised"}
  /\ connResult # "returned"

C3_Witness ==
  connResult = "fatal" /\ tries = max_attempts /\ slept = 4 /\ pc = "atexit"

\* C4: SIGTERM comes first and while no SIGKILL has been sent; SIGKILL is sent
\* only after SIGTERM, after wait() has timed out with GracePeriod time units
\* gone and the child still running; once the grace period has ended with the
\* child still running the next thing cleanup() does is that SIGKILL; when
\* wait() returns because the child exited, no SIGKILL is sent.
C4_TwoPhaseStop ==
  [][ /\ terms' > terms => pc = "cl_term" /\ kills = 0
      /\ kills' > kills =>
           /\ terms >= 1 /\ timedOut /\ waited = GracePeriod
           /\ child = "running" /\ pc = "cl_poll2"
      /\ (pc = "cl_wait" /\ pc' = "cl_poll2") =>
           waited = GracePeriod /\ child = "running"
      /\ (pc = "cl_wait" /\ child = "running" /\ waited = GracePeriod
            /\ pc' # pc) => pc' = "cl_poll2"
      /\ (pc = "cl_poll2" /\ pc' # pc /\ child' = "running") =>
           kills' = kills + 1
      /\ (pc = "cl_wait" /\ pc' = "cl_return") =>
           kills' = kills /\ child' \in {"reaped", "gone"}
      /\ (pc = "cl_poll2" /\ child # "running" /\ pc' # pc) => kills' = kills
    ]_vars

C4_Witness ==
  /\ pc = "cl_return" /\ terms = 1 /\ kills = 1
  /\ timedOut /\ waited = GracePeriod

\* The bytes are optional white space, then O, K, then optional white space.
TrimmedIsOK(s) ==
  \E i \in 1..(Len(s) - 1) :
    /\ s[i] = "O" /\ s[i + 1] = "K"
    /\ \A k \in 1..Len(s) : k \notin {i, i + 1} => s[k] \in Whitespace

\* C5: a call with 16 values on a connected socket returns true exactly when
\* it read bytes that, without the surrounding white space, are OK; a send
\* error, a receive error and an empty read give false; nothing but an
\* interrupt is raised to the caller.
C5_TrueIffOK ==
  (lastOp = "set" /\ io.len = JointCount /\ io.sock = "connected") =>
    /\ pc = "returned" =>
         /\ ret \in {"true", "false"}
         /\ exc = "none"
         /\ ret = "true" <=> (io.recv = "data" /\ TrimmedIsOK(io.data))
         /\ (io.sent = "error" \/ io.recv \in {"error", "eof"}) => ret = "false"
    /\ pc = "raised" =>
         /\ exc = "KeyboardInterrupt"
         /\ "interrupted" \in {io.sent, io.recv}

C5_Witness ==
  /\ pc = "returned" /\ lastOp = "set" /\ ret = "true"
  /\ io.data = <<"\n", "O", "K", "\n">>

\* C6: what a call reads is the answer to the command that call sent: no byte
\* it reads was sent by the server in answer to an earlier command.
C6_ReadsOwnReply ==
  (lastOp = "set" /\ io.recv = "data") => io.staleRead = 0

\* C7: a vector whose length is not 16 makes set_joint_positions raise
\* ValueError, in every connection state, with nothing sent, nothing read and
\* the socket, the process handle and the child left as they were.
C7_WrongLengthRaises ==
  [][ (pc = "idle" /\ lastOp' = "set" /\ io'.len # JointCount) =>
        /\ pc' = "raised" /\ exc' = "ValueError" /\ ret' = "none"
        /\ io'.sent = "none" /\ io'.recv = "none"
        /\ UNCHANGED <<socket, grasp_process, child, live, net, sig,
                       exitStatus>>
    ]_vars

C7_Witness ==
  /\ pc = "raised" /\ exc = "ValueError"
  /\ io.len = 17 /\ io.sock = "connected" /\ socket = "connected"

\* C8: on a controller whose socket is not connected, every step of a call
\* with 16 values leaves the wire, the handles, the child and the exit status
\* alone, raises nothing, and the call returns false.
C8_NotConnectedReturnsFalse ==
  [][ (/\ pc \in {"idle", "sj_send"} /\ pc' # pc
       /\ lastOp' = "set" /\ io'.len = JointCount /\ io'.sock # "connected") =>
        /\ pc' \in {"sj_send", "returned"}
        /\ pc' = "returned" => ret' = "false"
        /\ exc' = "none"
        /\ io'.sent \in {"none", "error"} /\ io'.recv = "none"
        /\ UNCHANGED <<socket, grasp_process, child, live, inbuf, peerOpen,
                       linePart, sig, exitStatus>>
    ]_vars

C8_Witness ==
  /\ pc = "returned" /\ lastOp = "set" /\ io.len = JointCount
  /\ io.sock = "none" /\ ret = "false" /\ everReady /\ quits = 1

\* C9: cleanup() never lets an error escape, and when it has ended both the
\* socket handle and the process handle are released, whichever step failed.
C9_CleanupNeverRaises ==
  afterCleanup =>
    ~cleanupRaised /\ socket = "none" /\ grasp_process = "none"

\* C10: when the program has terminated after spawning the child, the child
\* has been sent SIGTERM or has exited.
C10_ChildNeverLeftRunning ==
  (pc = "terminated" /\ child # "notspawned") =>
    terms >= 1 \/ child # "running"

\* C11: when cleanup() looks at a child that has already exited and no signal
\* has been sent to it, the stop is a successful no-op: that step sends neither
\* SIGTERM nor SIGKILL, raises nothing, releases the process handle and goes
\* straight to the end of cleanup().
C11_ExitedChildNoOp ==
  [][ (/\ pc = "cl_poll" /\ pc' # pc
       /\ child \in {"zombie", "reaped", "gone"} /\ terms = 0 /\ kills = 0) =>
        /\ terms' = 0 /\ kills' = 0
        /\ grasp_process' = "none"
        /\ child' \in {"reaped", "gone"}
        /\ pc' = "cl_return"
        /\ UNCHANGED <<exc, cleanupRaised, exitStatus>>
    ]_vars

C11_Witness ==
  /\ pc = "cl_return" /\ child = "reaped" /\ grasp_process = "none"
  /\ terms = 0 /\ kills = 0 /\ ~cleanupRaised /\ cleanupFrom = "caller"

\* The window the retry loop covers, in ticks: the last of the max_attempts
\* attempts is made after max_attempts - 1 delays.
LastAttemptTick == (max_attempts - 1) * RetryDelay * TicksPerUnit

\* C12 as stated: the constructor's connect() does not fail when the server
\* starts accepting less than max_attempts * RetryDelay time units after it
\* began, and does not succeed when the server starts later than that.
C12_AcceptWithinBudget ==
  (connFrom = "init" /\ acceptAfter >= 0) =>
    /\ acceptAfter < max_attempts * RetryDelay * TicksPerUnit =>
         connResult # "fatal"
    /\ acceptAfter > max_attempts * RetryDelay * TicksPerUnit =>
         connResult # "connected"

\* C12 amended: the constructor's connect() does not fail when the server
\* starts accepting at most (max_attempts - 1) * RetryDelay time units after it
\* began, and then it connects with the first attempt made at or after that
\* time; it does not succeed when the server starts later than that; it ends
\* in no other way than connected, failed or interrupted.
C12_AcceptWithinLastAttempt ==
  (connFrom = "init" /\ acceptAfter >= 0) =>
    /\ acceptAfter <= LastAttemptTick => connResult # "fatal"
    /\ acceptAfter > LastAttemptTick => connResult # "connected"
    /\ connResult = "connected" =>
         /\ slept * TicksPerUnit >= acceptAfter
         /\ attempt > 0 => (slept - RetryDelay) * TicksPerUnit < acceptAfter
    /\ connResult \in {"none", "connected", "fatal", "interrupted"}

C12_Witness ==
  /\ connFrom = "init" /\ acceptAfter = LastAttemptTick
  /\ connResult = "connected" /\ tries = max_attempts /\ pc = "returned"

\* C13: an explicit path is used as it is, made absolute, and no candidate is
\* probed; with no explicit path the candidates are probed in their order up to
\* the first one that exists, which is chosen and made absolute, whichever
\* candidates exist; FileNotFoundError is raised exactly when no explicit path
\* was given and no candidate exists, after all four were probed, and then no
\* process has been spawned, no socket created and no connection attempted.
C13_ExecutableResolution ==
  LET r == resolution IN
  /\ pc = "start" <=> r.outcome = "found"
  /\ r.outcome = "found" =>
       /\ r.absolute
       /\ r.arg # "none" => r.path = 0 /\ r.probed = <<>>
       /\ r.arg = "none" =>
            /\ r.path \in r.existing
            /\ \A d \in Candidates : d < r.path => d \notin r.existing
            /\ r.probed = [i \in 1..r.path |-> i]
  /\ r.outcome \in {"found", "notfound"} =>
       (r.outcome = "notfound" <=> (r.arg = "none" /\ r.existing = {}))
  /\ r.outcome = "notfound" =>
       /\ r.probed = <<1, 2, 3, 4>>
       /\ pc \in {"atexit", "terminated"} /\ exitStatus = 1
       /\ pc = "atexit" => exc = "FileNotFoundError"
       /\ child = "notspawned" /\ grasp_process = "none"
       /\ socket = "none" /\ live = 0 /\ peakLive = 0
       /\ tries = 0 /\ ~everReady /\ ~registered

C13_Witness ==
  /\ pc = "start" /\ resolution.arg = "none"
  /\ resolution.existing = {3, 4} /\ resolution.path = 3
  /\ resolution.probed = <<1, 2, 3>> /\ resolution.absolute

\* C14: a controller constructed against a server that is already running
\* (it accepts from the moment connecting begins) has no supervised child:
\* construction has spawned no process and holds no process handle, and no
\* signal has been sent to any process.
C14_AttachWithoutChild ==
  (connFrom = "init" /\ acceptAfter = 0) =>
    /\ child = "notspawned" /\ grasp_process = "none"
    /\ terms = 0 /\ kills = 0

\* What the constructor does instead, whatever it is given: no connection is
\* attempted and no controller is ever connected unless start_grasp has
\* spawned the child first.
C14_SpawnBeforeConnect ==
  (pc \in {"conn_loop", "conn_try", "conn_sleep"} \/ everReady \/ tries > 0) =>
    child # "notspawned"

IsDigit(c) == c \in {DigitChar[i] : i \in 1..10}

\* -?\d+\.\d{6}
MatchesValue(s) ==
  LET t == IF s # <<>> /\ s[1] = "-" THEN Tail(s) ELSE s
      n == Len(t)
  IN /\ n >= FracDigits + 2
     /\ t[n - FracDigits] = "."
     /\ \A i \in 1..n : i # n - FracDigits => IsDigit(t[i])

\* ( -?\d+\.\d{6}){n} and nothing after it
RECURSIVE MatchesValues(_, _)
MatchesValues(s, n) ==
  IF n = 0 THEN s = <<>>
  ELSE /\ Len(s) >= 2 /\ s[1] = " "
       /\ \E k \in 2..Len(s) :
            /\ MatchesValue(SubSeq(s, 2, k))
            /\ MatchesValues(SubSeq(s, k + 1, Len(s)), n - 1)

\* ^SET_JOINTS( -?\d+\.\d{6}){16}$ and the newline after it
MatchesCommand(s) ==
  LET h == Len(SetJointsToken) IN
  /\ Len(s) > h + 1
  /\ SubSeq(s, 1, h) = SetJointsToken
  /\ s[Len(s)] = "\n"
  /\ MatchesValues(SubSeq(s, h + 1, Len(s) - 1), JointCount)

\* SET_JOINTS, 16 times " 0.000000", newline
ZeroCommand ==
  SetJointsToken
    \o Join([i \in 1..(JointCount + 1) |->
               IF i = 1 THEN <<>>
               ELSE <<"0", ".", "0", "0", "0", "0", "0", "0">>])
    \o <<"\n">>

\* C15: for every vector of 16 floats the command line put together for the
\* socket is SET_JOINTS, then 16 times a space and a value made of an optional
\* minus sign, digits, a point and six digits, then one newline; for a vector
\* of 16 zeros it is SET_JOINTS, 16 times " 0.000000", and a newline.
C15_CommandLineFormat ==
  pc = "sj_send" =>
    /\ MatchesCommand(cmd)
    /\ (\A i \in 1..JointCount :
          positions[i].kind = "finite" /\ positions[i].units = 0) =>
         cmd = ZeroCommand

\* What holds of the formatting: the line has that shape for every vector of
\* 16 finite floats, and those bytes for 16 times positive zero.
C15_FiniteVectorsMatch ==
  pc = "sj_send" =>
    /\ (\A i \in 1..JointCount : positions[i].kind = "finite") =>
         MatchesCommand(cmd)
    /\ (\A i \in 1..JointCount : positions[i] = Zero) => cmd = ZeroCommand

IsPrefix(s, t) == Len(s) <= Len(t) /\ s = SubSeq(t, 1, Len(s))

\* C16: what a cleanup() does happens in the order QUIT sent, pause, socket
\* closed, process group signalled (SIGTERM, then SIGKILL); QUIT goes out only
\* on a connected socket and is followed by the pause before the close; when
\* the send fails the close comes next; the process group is signalled only
\* when self.socket has been closed and cleared.
C16_TeardownOrder ==
  [][ /\ \/ IsPrefix(events', <<"quit", "pause", "close", "term", "kill">>)
         \/ IsPrefix(events', <<"quitfail", "close", "term", "kill">>)
         \/ IsPrefix(events', <<"term", "kill">>)
      /\ (\E i \in 1..Len(events') : events'[i] \in {"term", "kill"}) =>
           socket' = "none" /\ live' = 0
      /\ quits' > quits => socket = "connected" /\ pc' = "cl_pause"
      /\ (terms' > terms \/ kills' > kills) => socket = "none"
    ]_vars

C16_Witness ==
  /\ pc = "cl_return" /\ cleanupFrom = "caller"
  /\ events = <<"quit", "pause", "close", "term", "kill">>

\* C17: the sockets the controller has created and not closed are never more
\* than one, neither while a state lasts nor in passing, when connect() makes a
\* new socket for the next attempt or for a controller that is connected.
C17_AtMostOneLiveSocket ==
  live <= 1 /\ peakLive <= 1

\* C18: once the child has been spawned, self.grasp_process is None only when
\* the child has been seen to have exited and has been reaped (or is known to
\* be gone); the handle is not dropped while the child may still be running.
C18_ReleasedOnlyWhenStopped ==
  (grasp_process = "none" /\ child # "notspawned") =>
    child \in {"reaped", "gone"}

\* C19: a set_joint_positions that is at its recv, or has been through it, has
\* written the whole command line; a send that took only part of the line is
\* followed by no recv and gives no true result.
C19_WholeLineBeforeRead ==
  lastOp = "set" =>
    /\ (pc = "sj_recv" \/ io.recv # "none") => io.sent = "full"
    /\ io.sent = "partial" => ret # "true"

ConnectPcs == {"conn_loop", "conn_try", "conn_sleep"}

\* The controller has been closed: the program holds it, no method is running
\* and close() or cleanup() has dealt with the socket.
Closed == pc = "idle" /\ socket \in {"none", "closed"}

\* C20: the lifecycle only moves forward: the settle delay begins with the
\* child spawned; the constructor's connect() begins when the settle delay
\* ends; the socket becomes connected only by an attempt of connect() that
\* succeeds; and no operation started on a closed controller makes it connect
\* or connected again or opens a new socket.
C20_LifecycleForwardOnly ==
  [][ /\ pc' = "settle" => child' # "notspawned" /\ pc \in {"start", "settle"}
      /\ (pc' \in ConnectPcs /\ connFrom' = "init") =>
           pc \in {"settle"} \cup ConnectPcs
      /\ (socket' = "connected" /\ socket # "connected") =>
           pc = "conn_try" /\ connResult' = "connected"
      /\ Closed =>
           /\ pc' \notin ConnectPcs
           /\ socket' # "connected"
           /\ live' <= live /\ peakLive' = peakLive
    ]_vars

\* What holds of the lifecycle: everything but the part about a closed
\* controller.
C20_ForwardUntilClosed ==
  [][ /\ pc' = "settle" => child' # "notspawned" /\ pc \in {"start", "settle"}
      /\ (pc' \in ConnectPcs /\ connFrom' = "init") =>
           pc \in {"settle"} \cup ConnectPcs
      /\ (socket' = "connected" /\ socket # "connected") =>
           pc = "conn_try" /\ connResult' = "connected"
    ]_vars

====
